---- MODULE Spec2Model ----
(***************************************************************************)
(* State machine of HomePage (src/src/app/page.tsx): the React state of    *)
(* the page, the localStorage blob, the axios requests in flight and the   *)
(* handlers that react to the user's events and to the responses.          *)
(*                                                                         *)
(* Conventions.  A text is a sequence of tokens (a token stands for one    *)
(* character or for one run of characters that the code never looks into). *)
(* A JavaScript array is Arr(s) for a TLA+ sequence s, so that it can be   *)
(* told from `undefined`; indices are those of JavaScript (0-based) in     *)
(* every value the program holds (selectedStep, node ids, edge ids).       *)
(* selectedStep = null is the number Null.  isSidebarOpen and              *)
(* selectedQuestionId only choose CSS classes and are left out.            *)
(***************************************************************************)
EXTENDS Integers, Sequences, FiniteSets, Bags, TLC

VARIABLES
  status,             \* "mounting" (before the mount effects), "ready", "crashed"
  storage,            \* localStorage['mathflow-saved-questions']
  nodes,              \* useState<Node[]>
  edges,              \* useState<Edge[]>
  solutionInput,      \* useState("")
  steps,              \* useState<{math, explanation}[]>
  selectedStep,       \* useState<number | null>
  substeps,           \* useState<{math, explanation}[]>
  savedQuestions,     \* useState<{id, question, timestamp, solution}[]>
  now,                \* Date.now() at the last recording
  pendingRoot,        \* bag of /split-solution requests in flight (their solution)
  pendingStep,        \* bag of /split-step requests in flight (their step index)
  last                \* the last event handled (history variable)

vars == <<status, storage, nodes, edges, solutionInput, steps, selectedStep,
          substeps, savedQuestions, now, pendingRoot,
          pendingStep, last>>

(***************************************************************************)
(* Bounds of the model.                                                    *)
(***************************************************************************)
MaxRecords == 1        \* recordings made after the page is opened
MaxInFlight == 2       \* requests in flight at once

(***************************************************************************)
(* JavaScript values.                                                      *)
(***************************************************************************)
Null == -1
Undefined == [t |-> "undefined"]
Arr(s) == [t |-> "array", v |-> s]
IsArray(x) == x.t = "array"

\* Array.prototype.map over the indices 1..n
Map(n, F(_)) == IF n = 0 THEN <<>> ELSE [i \in 1..n |-> F(i)]

Max(a, b) == IF a >= b THEN a ELSE b
Min(a, b) == IF a <= b THEN a ELSE b

\* Array.prototype.slice(from, to) with 0 <= from, and to < 0 counted from the end
Slice(s, from, to) ==
  LET end == IF to < 0 THEN Max(Len(s) + to, 0) ELSE Min(to, Len(s))
  IN  IF from >= end THEN <<>> ELSE SubSeq(s, from + 1, end)

\* String.prototype.trim: whitespace tokens are " "
RECURSIVE TrimStart(_)
TrimStart(s) ==
  IF s # <<>> /\ Head(s) = " " THEN TrimStart(Tail(s)) ELSE s

RECURSIVE TrimEnd(_)
TrimEnd(s) ==
  IF s # <<>> /\ s[Len(s)] = " " THEN TrimEnd(SubSeq(s, 1, Len(s) - 1)) ELSE s

Trim(s) == TrimEnd(TrimStart(s))

\* `${idx}` and parseInt(node.id); the ids of the model have one digit
IdOf(idx) == ToString(idx)
NaN == -2
ParseInt(id) ==
  IF \E n \in 0..9 : ToString(n) = id
  THEN CHOOSE n \in 0..9 : ToString(n) = id
  ELSE NaN

(***************************************************************************)
(* The inputs: what the user types and what the service answers.           *)
(***************************************************************************)
\* .slice(0, 19) of the recording: with the new entry the history holds 20
HistoryKeep == 19
HistoryCap == HistoryKeep + 1

Query(i) == <<"q" \o ToString(i)>>

\* texts typed into the textarea: whitespace only, the oldest query a stored
\* history holds, a query no stored history holds
InputTexts == {<<" ">>, Query(1), Query(HistoryCap + 1)}

StepPool ==
  <<[math |-> <<"x+1=2">>, explanation |-> <<"isolate x">>],
    [math |-> <<"x=1">>, explanation |-> <<"solved">>],
    [math |-> <<"x=2-1">>, explanation |-> <<>>]>>

\* the step lists the service answers with: none, one and two steps
StepListSeq == <<<<>>, <<StepPool[3]>>, <<StepPool[1], StepPool[2]>>>>
StepLists == {StepListSeq[n] : n \in 1..Len(StepListSeq)}

\* raw substeps as the service formats them: "##M" and "##E" stand for a
\* match of /## \d+\.\s*Math Step:/i and /## \d+\.\s*Deep Explanation:/i,
\* "*" for an asterisk, " " for a whitespace character
SubstepPool ==
  <<[math |-> <<"##M", " ", "*", "*", "x=2-1", "*", "*", " ">>,
     explanation |-> <<"##E", "*", "*", " ", "subtract", " ", "1">>],
    [math |-> <<" ", "*", "*", "x", "*", "*", "=", "*", "*", "1">>,
     explanation |-> <<>>],
    [math |-> <<"x=1">>, explanation |-> <<"*", "*", "*", "done", "*", "*">>]>>

\* the substep lists the service answers with: none and three substeps
SubstepLists == {<<>>, SubstepPool}

(***************************************************************************)
(* handleStepClick's cleanup of a substep (page.tsx 163-182).              *)
(***************************************************************************)
\* least i in from..Len(s) with s[i] = tok, or 0
IndexOf(s, tok, from) ==
  LET hits == {i \in from..Len(s) : s[i] = tok}
  IN  IF hits = {} THEN 0 ELSE CHOOSE i \in hits : \A j \in hits : i <= j

\* .replace(/<header>[\s\*]*/i, ""): the first header and the run of
\* whitespace and asterisks after it are removed
RemoveHeader(s, header) ==
  LET i == IndexOf(s, header, 1)
      stops == {j \in (i + 1)..Len(s) : s[j] \notin {" ", "*"}}
      j == IF stops = {} THEN Len(s) + 1
           ELSE CHOOSE k \in stops : \A m \in stops : k <= m
  IN  IF i = 0 THEN s ELSE SubSeq(s, 1, i - 1) \o SubSeq(s, j, Len(s))

\* least i in from..Len(s)-1 where "**" starts, or 0
IndexOfBold(s, from) ==
  LET hits == {i \in from..(Len(s) - 1) : s[i] = "*" /\ s[i + 1] = "*"}
  IN  IF hits = {} THEN 0 ELSE CHOOSE i \in hits : \A j \in hits : i <= j

\* .replace(/\*\*(.*?)\*\*/g, "$1"): each leftmost shortest **...** loses
\* its two delimiters; the replaced text is not scanned again
RECURSIVE StripBold(_)
StripBold(s) ==
  LET open == IndexOfBold(s, 1)
      close == IF open = 0 THEN 0 ELSE IndexOfBold(s, open + 2)
  IN  IF close = 0 THEN s
      ELSE SubSeq(s, 1, open - 1) \o SubSeq(s, open + 2, close - 1)
           \o StripBold(SubSeq(s, close + 2, Len(s)))

CleanMath(math) == Trim(StripBold(RemoveHeader(math, "##M")))
CleanExplanation(explanation) == Trim(StripBold(RemoveHeader(explanation, "##E")))

ProcessedSubsteps(raw) ==
  Map(Len(raw), LAMBDA i :
        [math |-> CleanMath(raw[i].math),
         explanation |-> CleanExplanation(raw[i].explanation)])

(***************************************************************************)
(* The graph built from a step list (page.tsx 111-146 and 296-331).        *)
(***************************************************************************)
NodeOf(step, idx) ==
  [id |-> IdOf(idx), label |-> step, position |-> [x |-> 200, y |-> idx * 100]]

\* mutant: the node ids are counted from 1
NewNodesFromOne(stepsData) ==
  Map(Len(stepsData), LAMBDA i : NodeOf(stepsData[i], i))

NewNodes(stepsData) ==
  Map(Len(stepsData), LAMBDA i : NodeOf(stepsData[i], i - 1))

EdgeOf(idx) ==
  [id |-> "e-" \o IdOf(idx), source |-> IdOf(idx), target |-> IdOf(idx + 1)]

\* mutant: the edges are mapped from the whole list (slice(0, -1) forgotten)
NewEdgesOfAll(stepsData) ==
  Map(Len(stepsData), LAMBDA i : EdgeOf(i - 1))

NewEdges(stepsData) ==
  LET firsts == Slice(stepsData, 0, -1)
  IN  Map(Len(firsts), LAMBDA i : EdgeOf(i - 1))

(***************************************************************************)
(* The history (page.tsx 94-108) and its persisted form (page.tsx 60-77).  *)
(***************************************************************************)
\* Date.now() when the page is opened; stored entries are older
StartTime == HistoryCap

NewQuestion(question, time, stepsData) ==
  [id |-> ToString(time), question |-> question, timestamp |-> time,
   solution |-> stepsData]

\* mutant: the entries of the same query are not filtered out
FilteredQuestionsWithDuplicates(prevQuestions, question) ==
  Slice(prevQuestions, 0, HistoryKeep)

\* mutant: the filtered entries are not sliced
FilteredQuestionsUnsliced(prevQuestions, question) ==
  SelectSeq(prevQuestions, LAMBDA q : q.question # question)

FilteredQuestions(prevQuestions, question) ==
  Slice(SelectSeq(prevQuestions, LAMBDA q : q.question # question), 0, HistoryKeep)

\* the updater handed to setSavedQuestions
RecordQuestion(prevQuestions, newQuestion) ==
  <<newQuestion>> \o FilteredQuestions(prevQuestions, newQuestion.question)

\* JSON.stringify of the history: a JSON text is modelled by its syntax tree;
\* a property whose value is undefined is left out
StringifyStep(step) ==
  [t |-> "object",
   v |-> <<<<"math", [t |-> "string", v |-> step.math]>>,
           <<"explanation", [t |-> "string", v |-> step.explanation]>>>>]

StringifySolution(solution) ==
  [t |-> "array",
   v |-> Map(Len(solution.v), LAMBDA i : StringifyStep(solution.v[i]))]

StringifyQuestion(q) ==
  [t |-> "object",
   v |-> <<<<"id", [t |-> "string", v |-> <<q.id>>]>>,
           <<"question", [t |-> "string", v |-> q.question]>>,
           <<"timestamp", [t |-> "number", v |-> <<ToString(q.timestamp)>>]>>>>
         \o (IF IsArray(q.solution)
             THEN <<<<"solution", StringifySolution(q.solution)>>>>
             ELSE <<>>)]

JSONStringify(questions) ==
  [t |-> "array",
   v |-> Map(Len(questions), LAMBDA i : StringifyQuestion(questions[i]))]

\* JSON.parse of a stored text; Field is obj[key]
HasField(obj, key) == \E i \in 1..Len(obj.v) : obj.v[i][1] = key
Field(obj, key) == obj.v[CHOOSE i \in 1..Len(obj.v) : obj.v[i][1] = key][2]

ParseNumber(digits) == CHOOSE n \in 0..(StartTime + MaxRecords) : ToString(n) = digits

ParseStep(obj) ==
  [math |-> Field(obj, "math").v, explanation |-> Field(obj, "explanation").v]

ParseQuestion(obj) ==
  [id |-> Field(obj, "id").v[1],
   question |-> Field(obj, "question").v,
   timestamp |-> ParseNumber(Field(obj, "timestamp").v[1]),
   solution |-> IF HasField(obj, "solution")
                THEN LET a == Field(obj, "solution").v
                     IN  Arr(Map(Len(a), LAMBDA i : ParseStep(a[i])))
                ELSE Undefined]

\* localStorage.getItem gives null for a missing key, else the stored text;
\* a text is a JSON text or one that JSON.parse throws on
Missing == [t |-> "null"]
InvalidText == [t |-> "invalid"]

\* stored texts that are JSON but no array: {} and null
ObjectText == [t |-> "object", v |-> <<>>]
NullText == [t |-> "literal", v |-> "null"]

\* the values JSON.parse gives for them: a plain object, null
PlainObject == [t |-> "object"]
JSNull == [t |-> "null"]

JSONParse(json) ==
  IF json.t = "array"
  THEN Arr(Map(Len(json.v), LAMBDA i : ParseQuestion(json.v[i])))
  ELSE IF json.t = "object" THEN PlainObject ELSE JSNull

\* what k recordings at the times 1..k leave in the history: Query(1) was
\* recorded first and is the oldest entry, Query(k) the most recent
StoredQuestions(k) ==
  Map(k, LAMBDA i :
        LET j == k + 1 - i
        IN  NewQuestion(Query(j), j, Arr(StepListSeq[(j % Len(StepListSeq)) + 1])))

(***************************************************************************)
(* The events.                                                             *)
(***************************************************************************)
\* last names the response or history selection handled last, if no other
\* event came after it, with the query a recording was made for and the step
\* the answered substep request was made for or the position of the history
\* entry, and what the handler found: a tree, a moved node, a selected step,
\* substeps
Event(op, q, idx, over) == [op |-> op, q |-> q, idx |-> idx, over |-> over]
Nothing == [tree |-> FALSE, moved |-> FALSE, step |-> FALSE, substeps |-> FALSE]
Quiet == Event("none", <<>>, Null, Nothing)

\* where a dragged node is dropped
DropPosition == [x |-> 0, y |-> 0]

Found ==
  [tree |-> nodes # <<>>,
   moved |-> \E i \in 1..Len(nodes) : nodes[i].position = DropPosition,
   step |-> selectedStep # Null,
   substeps |-> substeps # <<>>]

InFlight == BagCardinality(pendingRoot) + BagCardinality(pendingStep)

\* mutant: the save effect writes nothing
SaveEffectUnwritten(questions, stored) == stored

\* useEffect(..., [savedQuestions]) (page.tsx 73-77), run after a commit
\* that changed savedQuestions
SaveEffect(questions, stored) ==
  IF IsArray(questions) /\ Len(questions.v) > 0
  THEN JSONStringify(questions.v)
  ELSE stored

InitState(stored) ==
  /\ status = "mounting"
  /\ storage = stored
  /\ nodes = <<>>
  /\ edges = <<>>
  /\ solutionInput = <<>>
  /\ steps = Arr(<<>>)
  /\ selectedStep = Null
  /\ substeps = <<>>
  /\ savedQuestions = Arr(<<>>)
  /\ now = StartTime
  /\ pendingRoot = EmptyBag
  /\ pendingStep = EmptyBag
  /\ last = Quiet

\* a first visit, and a later visit after one recording
InitialStorages == {Missing, JSONStringify(StoredQuestions(1))}

Init == \E stored \in InitialStorages : InitState(stored)

\* the mount effect (page.tsx 60-70) and the save effect of the same commit;
\* a parsed null makes the render throw on savedQuestions.length (280)
Load ==
  /\ status = "mounting"
  /\ savedQuestions' =
       IF storage = Missing \/ storage = InvalidText
       THEN savedQuestions
       ELSE JSONParse(storage)
  /\ status' = IF savedQuestions' = JSNull THEN "crashed" ELSE "ready"
  /\ storage' = SaveEffect(savedQuestions', storage)
  /\ last' = Quiet
  /\ UNCHANGED <<nodes, edges, solutionInput, steps, selectedStep, substeps,
                 now, pendingRoot, pendingStep>>

\* textarea onChange (page.tsx 352)
SetSolutionInput(text) ==
  /\ status = "ready"
  /\ solutionInput' = text
  /\ last' = Quiet
  /\ UNCHANGED <<status, storage, nodes, edges, steps, selectedStep, substeps,
                 savedQuestions, now, pendingRoot, pendingStep>>

\* handleSubmit up to its await (page.tsx 79-86): a blank input returns,
\* any other posts the input as it is
HandleSubmit ==
  /\ status = "ready"
  /\ IF Trim(solutionInput) = <<>>
     THEN /\ last' = Quiet
          /\ UNCHANGED pendingRoot
     ELSE /\ InFlight < MaxInFlight
          /\ pendingRoot' = pendingRoot (+) SetToBag({solutionInput})
          /\ last' = Quiet
  /\ UNCHANGED <<status, storage, nodes, edges, solutionInput, steps,
                 selectedStep, substeps, savedQuestions, now, pendingStep>>

\* handleSubmit after a 2xx response with data.steps = stepsData
\* (page.tsx 88-146) and the save effect of the commit
SubmitOk(question, stepsData) ==
  /\ status = "ready"
  /\ BagIn(question, pendingRoot)
  /\ now < StartTime + MaxRecords
  /\ pendingRoot' = pendingRoot (-) SetToBag({question})
  /\ steps' = Arr(stepsData)
  /\ selectedStep' = Null
  /\ substeps' = <<>>
  /\ now' = now + 1
  /\ nodes' = NewNodes(stepsData)
  /\ edges' = NewEdges(stepsData)
  /\ last' = Event("submitOk", question, Null, Found)
  /\ IF IsArray(savedQuestions)
     THEN /\ savedQuestions' =
               Arr(RecordQuestion(savedQuestions.v,
                                  NewQuestion(question, now', Arr(stepsData))))
          /\ storage' = SaveEffect(savedQuestions', storage)
          /\ UNCHANGED status
     ELSE \* prevQuestions.filter is not a function: the render throws
          /\ status' = "crashed"
          /\ UNCHANGED <<savedQuestions, storage>>
  /\ UNCHANGED <<solutionInput, pendingStep>>

\* mutant: the catch resets the tree
SubmitRejectedResets(question) ==
  /\ status = "ready"
  /\ BagIn(question, pendingRoot)
  /\ pendingRoot' = pendingRoot (-) SetToBag({question})
  /\ last' = Event("submitRejected", <<>>, Null, Nothing)
  /\ steps' = Arr(<<>>)
  /\ nodes' = <<>>
  /\ edges' = <<>>
  /\ UNCHANGED <<status, storage, solutionInput, selectedStep, substeps,
                 savedQuestions, now, pendingStep>>

\* handleSubmit when axios.post rejects (network failure, non-2xx): the catch
\* logs (page.tsx 147-149)
SubmitRejected(question) ==
  /\ status = "ready"
  /\ BagIn(question, pendingRoot)
  /\ pendingRoot' = pendingRoot (-) SetToBag({question})
  /\ last' = Event("submitRejected", <<>>, Null, Nothing)
  /\ UNCHANGED <<status, storage, nodes, edges, solutionInput, steps,
                 selectedStep, substeps, savedQuestions, now, pendingStep>>

\* handleSubmit after a 2xx response without a steps array.  body "null":
\* res.data is null and res.data.steps throws before any update.  body "{}":
\* stepsData is undefined; the four updates of 89-108 are made, stepsData.map
\* (111) throws into the catch, and the next render throws on steps.length
\* (444), which unmounts the page: no effect runs.  The state shown is the one
\* that render was given.
MalformedBodies == {"null", "{}"}

SubmitMalformed(question, body) ==
  /\ status = "ready"
  /\ BagIn(question, pendingRoot)
  /\ pendingRoot' = pendingRoot (-) SetToBag({question})
  /\ last' = Event("submitMalformed", <<>>, Null, Nothing)
  /\ IF body = "null"
     THEN UNCHANGED <<status, steps, selectedStep, substeps, savedQuestions,
                      now, pendingStep>>
     ELSE /\ now < StartTime + MaxRecords
          /\ status' = "crashed"
          /\ steps' = Undefined
          /\ selectedStep' = Null
          /\ substeps' = <<>>
          /\ now' = now + 1
          /\ savedQuestions' =
               IF IsArray(savedQuestions)
               THEN Arr(RecordQuestion(savedQuestions.v,
                                       NewQuestion(question, now', Undefined)))
               ELSE savedQuestions
          /\ UNCHANGED pendingStep
  /\ UNCHANGED <<storage, nodes, edges, solutionInput>>

\* mutant: the substeps are emptied when the request is issued
HandleStepClickClears(index) ==
  /\ status = "ready"
  /\ selectedStep' = index
  /\ substeps' = <<>>
  /\ IF IsArray(steps) /\ index >= 0 /\ index < Len(steps.v)
     THEN /\ InFlight < MaxInFlight
          /\ pendingStep' = pendingStep (+) SetToBag({index})
     ELSE UNCHANGED pendingStep
  /\ last' = Quiet
  /\ UNCHANGED <<status, storage, nodes, edges, solutionInput, steps,
                 savedQuestions, now, pendingRoot>>

\* handleStepClick up to its await (page.tsx 152-161): the step is selected
\* and its math is posted; steps[index].math of a missing step throws into
\* the catch (185-188)
HandleStepClick(index) ==
  /\ status = "ready"
  /\ selectedStep' = index
  /\ IF IsArray(steps) /\ index >= 0 /\ index < Len(steps.v)
     THEN /\ InFlight < MaxInFlight
          /\ pendingStep' = pendingStep (+)
               SetToBag({index})
          /\ UNCHANGED substeps
     ELSE /\ substeps' = <<>>
          /\ UNCHANGED pendingStep
  /\ last' = Quiet
  /\ UNCHANGED <<status, storage, nodes, edges, solutionInput, steps,
                 savedQuestions, now, pendingRoot>>

\* a step card of the list (page.tsx 448-452)
StepCardClick(idx) ==
  /\ IsArray(steps)
  /\ idx \in 0..(Len(steps.v) - 1)
  /\ HandleStepClick(idx)

\* onNodeClick (page.tsx 191-199); the graph is rendered while no step is
\* selected (473, 499-515)
OnNodeClick(node) ==
  /\ selectedStep = Null
  /\ ParseInt(node.id) # NaN
  /\ HandleStepClick(ParseInt(node.id))

\* handleStepClick after a 2xx response with data.substeps = raw (163-184)
StepOk(index, raw) ==
  /\ status = "ready"
  /\ BagIn(index, pendingStep)
  /\ pendingStep' = pendingStep (-) SetToBag({index})
  /\ substeps' = ProcessedSubsteps(raw)
  /\ last' = Event("stepOk", <<>>, index, Nothing)
  /\ UNCHANGED <<status, storage, nodes, edges, solutionInput, steps,
                 selectedStep, savedQuestions, now,
                 pendingRoot>>

\* mutant: the catch only logs
StepFailedOnlyLogs(index) ==
  /\ status = "ready"
  /\ BagIn(index, pendingStep)
  /\ pendingStep' = pendingStep (-) SetToBag({index})
  /\ last' = Event("stepFailed", <<>>, index, Found)
  /\ UNCHANGED <<status, storage, nodes, edges, solutionInput, steps,
                 selectedStep, substeps, savedQuestions, now, pendingRoot>>

\* handleStepClick when the post rejects or the body has no substeps array:
\* the catch empties the substeps (185-188)
StepFailed(index) ==
  /\ status = "ready"
  /\ BagIn(index, pendingStep)
  /\ pendingStep' = pendingStep (-) SetToBag({index})
  /\ substeps' = <<>>
  /\ last' = Event("stepFailed", <<>>, index, Found)
  /\ UNCHANGED <<status, storage, nodes, edges, solutionInput, steps,
                 selectedStep, savedQuestions, now,
                 pendingRoot>>

\* mutant: the selected entry is also moved to the front of the history
HistorySelectMovesToFront(i) ==
  /\ status = "ready"
  /\ IsArray(savedQuestions)
  /\ i \in 1..Len(savedQuestions.v)
  /\ LET question == savedQuestions.v[i]
     IN  /\ solutionInput' = question.question
         /\ steps' = question.solution
         /\ selectedStep' = Null
         /\ substeps' = <<>>
         /\ last' = Event("historySelect", <<>>, i - 1, Found)
         /\ savedQuestions' =
              Arr(<<question>> \o SubSeq(savedQuestions.v, 1, i - 1)
                  \o SubSeq(savedQuestions.v, i + 1, Len(savedQuestions.v)))
         /\ storage' = SaveEffect(savedQuestions', storage)
         /\ IF IsArray(question.solution)
            THEN /\ nodes' = NewNodes(question.solution.v)
                 /\ edges' = NewEdges(question.solution.v)
                 /\ UNCHANGED status
            ELSE /\ status' = "crashed"
                 /\ UNCHANGED <<nodes, edges>>
  /\ UNCHANGED <<now, pendingRoot, pendingStep>>

\* onClick of the history entry at position i of the sidebar (page.tsx
\* 288-332); an entry without a solution array makes question.solution.map
\* (296) throw after the updates of 289-293, and the render throws on
\* steps.length (444)
HistorySelect(i) ==
  /\ status = "ready"
  /\ IsArray(savedQuestions)
  /\ i \in 1..Len(savedQuestions.v)
  /\ LET question == savedQuestions.v[i]
     IN  /\ solutionInput' = question.question
         /\ steps' = question.solution
         /\ selectedStep' = Null
         /\ substeps' = <<>>
         /\ last' = Event("historySelect", <<>>, i - 1, Found)
         /\ IF IsArray(question.solution)
            THEN /\ nodes' = NewNodes(question.solution.v)
                 /\ edges' = NewEdges(question.solution.v)
                 /\ UNCHANGED status
            ELSE /\ status' = "crashed"
                 /\ UNCHANGED <<nodes, edges>>
  /\ UNCHANGED <<storage, savedQuestions, now, pendingRoot, pendingStep>>

\* the user's gestures on the graph act on the first node and the first edge
\* that are shown
GraphTargets == {1}

RemoveAt(s, i) == SubSeq(s, 1, i - 1) \o SubSeq(s, i + 1, Len(s))

\* mutant: the dragged node is also brought to the end of the node list
NodeDragReorders(i) ==
  /\ status = "ready"
  /\ selectedStep = Null
  /\ i \in 1..Len(nodes)
  /\ nodes' = Append(RemoveAt(nodes, i), [nodes[i] EXCEPT !.position = DropPosition])
  /\ last' = Quiet
  /\ UNCHANGED <<status, storage, edges, solutionInput, steps, selectedStep,
                 substeps, savedQuestions, now,
                 pendingRoot, pendingStep>>

\* onNodesChange with a position change of node i (page.tsx 504-506)
NodeDrag(i) ==
  /\ status = "ready"
  /\ selectedStep = Null
  /\ i \in 1..Len(nodes)
  /\ nodes' = [nodes EXCEPT ![i].position = DropPosition]
  /\ last' = Quiet
  /\ UNCHANGED <<status, storage, edges, solutionInput, steps, selectedStep,
                 substeps, savedQuestions, now,
                 pendingRoot, pendingStep>>

\* the delete key on node i: onNodesChange with its removal and onEdgesChange
\* with the removal of the edges at it (page.tsx 504-509)
NodeRemove(i) ==
  /\ status = "ready"
  /\ selectedStep = Null
  /\ i \in 1..Len(nodes)
  /\ nodes' = RemoveAt(nodes, i)
  /\ edges' = SelectSeq(edges, LAMBDA e : e.source # nodes[i].id /\ e.target # nodes[i].id)
  /\ last' = Quiet
  /\ UNCHANGED <<status, storage, solutionInput, steps, selectedStep,
                 substeps, savedQuestions, now,
                 pendingRoot, pendingStep>>

\* the delete key on edge j: onEdgesChange with its removal (page.tsx 507-509)
EdgeRemove(j) ==
  /\ status = "ready"
  /\ selectedStep = Null
  /\ j \in 1..Len(edges)
  /\ edges' = RemoveAt(edges, j)
  /\ last' = Quiet
  /\ UNCHANGED <<status, storage, nodes, solutionInput, steps, selectedStep,
                 substeps, savedQuestions, now,
                 pendingRoot, pendingStep>>

Next ==
  \/ Load
  \/ \E text \in InputTexts : SetSolutionInput(text)
  \/ HandleSubmit
  \/ \E question \in BagToSet(pendingRoot), stepsData \in StepLists :
       SubmitOk(question, stepsData)
  \/ \E question \in BagToSet(pendingRoot) : SubmitRejected(question)
  \/ \E question \in BagToSet(pendingRoot), body \in MalformedBodies :
       SubmitMalformed(question, body)
  \/ \E idx \in 0..(Len(StepPool) - 1) : StepCardClick(idx)
  \/ \E i \in 1..Len(nodes) : OnNodeClick(nodes[i])
  \/ \E index \in BagToSet(pendingStep), raw \in SubstepLists :
       StepOk(index, raw)
  \/ \E index \in BagToSet(pendingStep) : StepFailed(index)
  \/ \E i \in 1..(HistoryCap + 1) : HistorySelect(i)
  \/ \E i \in GraphTargets : NodeDrag(i)
  \/ \E i \in GraphTargets : NodeRemove(i)
  \/ \E j \in GraphTargets : EdgeRemove(j)

Spec == Init /\ [][Next]_vars

(***************************************************************************)
(* The history on its own: the page is opened on a history that earlier    *)
(* visits left (two entries, one entry short of the cap, at the cap), and  *)
(* the user submits and restores; the first and the last entry of the      *)
(* sidebar are the ones clicked.                                           *)
(***************************************************************************)
StoredHistories ==
  {JSONStringify(StoredQuestions(k)) : k \in {2, HistoryKeep, HistoryCap}}

InitHistory == \E stored \in StoredHistories : InitState(stored)

NextHistory ==
  \/ Load
  \/ \E text \in InputTexts : SetSolutionInput(text)
  \/ HandleSubmit
  \/ \E question \in BagToSet(pendingRoot), stepsData \in StepLists :
       SubmitOk(question, stepsData)
  \/ \E question \in BagToSet(pendingRoot) : SubmitRejected(question)
  \/ \E question \in BagToSet(pendingRoot), body \in MalformedBodies :
       SubmitMalformed(question, body)
  \/ \E i \in {1, Len(savedQuestions.v)} : HistorySelect(i)

SpecHistory == InitHistory /\ [][NextHistory]_vars

(***************************************************************************)
(* The persisted history across visits: the page is opened on what the     *)
(* key holds (nothing, a text that is no JSON, JSON that is no array, the   *)
(* history of earlier visits), the user submits and restores, and reloads   *)
(* the page.                                                               *)
(***************************************************************************)
\* the browser reloads the page: HomePage is mounted anew (page.tsx 33-42),
\* the answers to the requests of the page left are dropped, localStorage
\* stays
Reload ==
  /\ status \in {"ready", "crashed"}
  /\ status' = "mounting"
  /\ nodes' = <<>>
  /\ edges' = <<>>
  /\ solutionInput' = <<>>
  /\ steps' = Arr(<<>>)
  /\ selectedStep' = Null
  /\ substeps' = <<>>
  /\ savedQuestions' = Arr(<<>>)
  /\ pendingRoot' = EmptyBag
  /\ pendingStep' = EmptyBag
  /\ last' = Quiet
  /\ UNCHANGED <<storage, now>>

StoredTexts ==
  {Missing, InvalidText, ObjectText, NullText,
   JSONStringify(StoredQuestions(1)), JSONStringify(StoredQuestions(2))}

InitStorage == \E stored \in StoredTexts : InitState(stored)

NextStorage ==
  \/ Load
  \/ \E text \in InputTexts : SetSolutionInput(text)
  \/ HandleSubmit
  \/ \E question \in BagToSet(pendingRoot), stepsData \in StepLists :
       SubmitOk(question, stepsData)
  \/ \E question \in BagToSet(pendingRoot) : SubmitRejected(question)
  \/ \E i \in 1..(MaxRecords + 2) : HistorySelect(i)
  \/ Reload

SpecStorage == InitStorage /\ [][NextStorage]_vars

(***************************************************************************)
(* The claims.                                                             *)
(***************************************************************************)
\* the graph of a step list S: node i-1 for step i, at its place, and edge
\* "e-K" from node K to node K+1 for every two consecutive steps
IsGraphOf(S) ==
  /\ Len(nodes) = Len(S)
  /\ \A i \in 1..Len(S) :
       /\ nodes[i].id = ToString(i - 1)
       /\ nodes[i].label = S[i]
       /\ nodes[i].position = [x |-> 200, y |-> (i - 1) * 100]
  /\ \A k \in 1..Len(edges) :
       /\ edges[k].id = "e-" \o ToString(k - 1)
       /\ edges[k].source = ToString(k - 1)
       /\ edges[k].target = ToString(k)

\* C1 as it is stated: after a successful root decomposition with the step
\* list S the graph is the graph of S, with len(S) nodes and len(S)-1 edges.
C1_SetRootOriginal ==
  last.op = "submitOk" =>
    /\ IsGraphOf(steps.v)
    /\ Len(edges) = Len(steps.v) - 1

\* C1 amended: after a successful root decomposition with the step list S,
\* whatever the graph was before, the graph holds exactly the len(S) nodes
\* "0".."len(S)-1" in step order and exactly the sequence edges "e-K" from K
\* to K+1: len(S)-1 of them when S has a step, none when S is empty.
C1_SetRoot ==
  last.op = "submitOk" =>
    /\ IsGraphOf(steps.v)
    /\ Len(edges) = (IF steps.v = <<>> THEN 0 ELSE Len(steps.v) - 1)

\* a two-step answer has replaced a tree with a moved node
C1_Witness ==
  /\ last.op = "submitOk"
  /\ last.over.tree /\ last.over.moved
  /\ Len(steps.v) = 2
  /\ Len(edges) = 1

Questions == savedQuestions.v
EntriesOf(question) == {i \in 1..Len(Questions) : Questions[i].question = question}

\* C2: no two history entries have the same query, and after a recording the
\* recorded query has exactly one entry, the first, which carries the step
\* list of that recording.
C2_OneEntryPerQuery ==
  IsArray(savedQuestions) =>
    /\ \A i, j \in 1..Len(Questions) :
         Questions[i].question = Questions[j].question => i = j
    /\ last.op = "submitOk" =>
         /\ EntriesOf(last.q) = {1}
         /\ Questions[1].solution = steps

\* the oldest of two stored queries was recorded again, with another step
\* list than the stored one: it is first and the other entry is behind it
C2_Witness ==
  /\ last.op = "submitOk"
  /\ last.q = Query(1)
  /\ Len(Questions) = 2
  /\ Questions[1].question = Query(1)
  /\ Questions[1].solution = Arr(StepListSeq[3])
  /\ Questions[1].solution # StoredQuestions(2)[2].solution
  /\ Questions[2] = StoredQuestions(2)[1]

\* C3: the history never holds more than 20 entries, and the recording of a
\* query that none of 20 entries has drops the last entry and keeps the 19
\* others, in their order, behind the new first entry.
C3_Cap ==
  /\ [](IsArray(savedQuestions) => Len(Questions) <= 20)
  /\ [][(/\ status = "ready"
         /\ savedQuestions' # savedQuestions
         /\ Len(Questions) = 20
         /\ \A i \in 1..20 : Questions[i].question # savedQuestions'.v[1].question)
        => (/\ Len(savedQuestions'.v) = 20
            /\ \A i \in 1..19 : savedQuestions'.v[i + 1] = Questions[i])]_vars

\* a 21st query was recorded: the oldest stored entry is gone, the 19 others
\* are behind the new one
C3_Witness ==
  /\ last.op = "submitOk"
  /\ last.q = Query(21)
  /\ Len(Questions) = 20
  /\ Questions[1].question = Query(21)
  /\ EntriesOf(Query(1)) = {}
  /\ \A i \in 1..19 : Questions[i + 1] = StoredQuestions(20)[i]

\* C4 as it is stated: the selection of a history entry with N steps leaves
\* the N nodes "0".."N-1" and N-1 sequence edges, the entry's steps as the
\* step list, no selected step and no substeps.
C4_HistorySelectOriginal ==
  (last.op = "historySelect" /\ IsArray(steps)) =>
    /\ steps = Questions[last.idx + 1].solution
    /\ IsGraphOf(steps.v)
    /\ Len(edges) = Len(steps.v) - 1
    /\ selectedStep = Null
    /\ substeps = <<>>

\* C4 amended: the selection of a history entry with N steps leaves, whatever
\* the state was before, the N nodes "0".."N-1" and their sequence edges (N-1
\* of them when N > 0, none when N = 0), the entry's steps as the step list,
\* no selected step and no substeps.
C4_HistorySelect ==
  (last.op = "historySelect" /\ IsArray(steps)) =>
    /\ steps = Questions[last.idx + 1].solution
    /\ IsGraphOf(steps.v)
    /\ Len(edges) = (IF steps.v = <<>> THEN 0 ELSE Len(steps.v) - 1)
    /\ selectedStep = Null
    /\ substeps = <<>>

\* an entry with two steps was selected over a tree with a moved node, a
\* selected step and substeps
C4_Witness ==
  /\ last.op = "historySelect"
  /\ last.over.tree /\ last.over.moved /\ last.over.step /\ last.over.substeps
  /\ Len(steps.v) = 2
  /\ Len(nodes) = 2

\* C5: the rejection of a root decomposition changes neither the nodes, the
\* edges, the step list, the selected step, the substeps nor the history.
C5_RejectedLeavesState ==
  [][last'.op = "submitRejected" =>
       UNCHANGED <<nodes, edges, steps, selectedStep, substeps,
                   savedQuestions, storage, status>>]_vars

\* a rejection was handled over a tree with a selected step, substeps and a
\* history
C5_Witness ==
  /\ last.op = "submitRejected"
  /\ nodes # <<>> /\ edges # <<>>
  /\ selectedStep # Null
  /\ substeps # <<>>
  /\ Len(Questions) > 0

\* C6 as it is stated: a 2xx answer without a steps array does not crash the
\* page and changes neither the step list, the selected step, the substeps,
\* the graph nor the history.
C6_MalformedLeavesState ==
  [][last'.op = "submitMalformed" =>
       /\ status' = "ready"
       /\ UNCHANGED <<steps, selectedStep, substeps, nodes, edges,
                      savedQuestions>>]_vars

\* C7 as it is stated: no step has two substep requests in flight.
C7_OneRequestPerStep ==
  \A index \in BagToSet(pendingStep) : CopiesIn(index, pendingStep) <= 1

\* C8 as it is stated: a stale substep answer is discarded.  While no step is
\* selected, every request in flight was made before the tree was replaced
\* (handleStepClick selects its step and only a replacement deselects), and
\* the replacement emptied the substeps: they are empty after the answer too.
C8_StaleDiscarded ==
  (last.op = "stepOk" /\ selectedStep = Null) => substeps = <<>>

\* C9: the failure of a step decomposition empties the substeps and changes
\* neither the nodes (no child is added), the edges, the step list nor the
\* history.
C9_StepFailureEmpties ==
  [][last'.op = "stepFailed" =>
       /\ substeps' = <<>>
       /\ UNCHANGED <<nodes, edges, steps, savedQuestions>>]_vars

\* a failure was handled while substeps were held
C9_Witness ==
  /\ last.op = "stepFailed"
  /\ last.over.substeps
  /\ substeps = <<>>
  /\ selectedStep = last.idx
  /\ nodes # <<>>

\* C10 as it is stated: after the answer to the request of the selected step
\* n with k substeps, the nodes n-0 .. n-(k-1) exist, with an edge from n to
\* each of them.
C10_ExpandAddsChildren ==
  (last.op = "stepOk" /\ selectedStep = last.idx) =>
    \A k \in 0..(Len(substeps) - 1) :
      LET child == ToString(last.idx) \o "-" \o ToString(k)
      IN  /\ \E i \in 1..Len(nodes) : nodes[i].id = child
          /\ \E j \in 1..Len(edges) :
               edges[j].source = ToString(last.idx) /\ edges[j].target = child

\* C11 as it is stated: the activation of the selected step while it holds
\* substeps (the node is expanded) fails: it issues no substep request, so
\* that the substeps it holds are kept and no new answer is applied.
C11_AlreadyExpanded ==
  [][(/\ selectedStep # Null
      /\ substeps # <<>>
      /\ selectedStep' = selectedStep
      /\ last'.op = "none")
     => pendingStep' = pendingStep]_vars

\* C12: while the page runs with a history that is not empty, the persisted
\* text deserializes to exactly the history in memory (same entries, order,
\* id, query, timestamp and steps), and a reload leaves that text to the next
\* load, which so restores the list the last recording produced.
C12_RoundTrip ==
  /\ []((status = "ready" /\ IsArray(savedQuestions) /\ Questions # <<>>)
         => (storage.t = "array" /\ JSONParse(storage) = savedQuestions))
  /\ [][(/\ status = "ready"
         /\ status' = "mounting"
         /\ IsArray(savedQuestions)
         /\ Questions # <<>>)
        => (storage'.t = "array" /\ JSONParse(storage') = savedQuestions)]_vars

\* the page was reloaded after a recording made on a stored history, and the
\* load restored the recorded entry in front of the stored one
C12_Witness ==
  /\ status = "ready"
  /\ solutionInput = <<>>
  /\ now > StartTime
  /\ IsArray(savedQuestions)
  /\ Len(Questions) = 2
  /\ Questions[1].timestamp = now
  /\ Questions[1].solution = Arr(StepListSeq[3])
  /\ Questions[2] = StoredQuestions(1)[1]

\* C13 as it is stated: when the key is missing or holds anything but a JSON
\* array of history entries, the history is the empty sequence after the
\* load and the page keeps running, through later recordings too (a
\* recording that succeeds replaces the text under the key).
C13_LoadFailsSoft ==
  (status # "mounting" /\ storage \in {Missing, InvalidText, ObjectText, NullText})
    => (status = "ready" /\ savedQuestions = Arr(<<>>))

HasNode(id) == \E i \in 1..Len(nodes) : nodes[i].id = id

\* C14 as it is stated: in every state the edges are the ones derived from
\* the nodes: every edge has both its endpoint nodes, and the sequence edge
\* from K to K+1 exists whenever the nodes K and K+1 exist.
C14_EdgesDerived ==
  /\ \A j \in 1..Len(edges) : HasNode(edges[j].source) /\ HasNode(edges[j].target)
  /\ \A K \in 0..(Len(StepPool) - 1) :
       (HasNode(IdOf(K)) /\ HasNode(IdOf(K + 1)))
         => \E j \in 1..Len(edges) : edges[j] = EdgeOf(K)

\* C15: the drag of a node changes the position of that node and nothing
\* else: the ids and labels of the nodes and their order, the other nodes,
\* the edges, the step list, the selected step, the substeps, the history
\* and its persisted text stay, and no request is issued.
C15_DragOnlyMoves ==
  [][\A i \in GraphTargets :
       NodeDrag(i) =>
         /\ Len(nodes') = Len(nodes)
         /\ \A k \in 1..Len(nodes) :
              /\ nodes'[k].id = nodes[k].id
              /\ nodes'[k].label = nodes[k].label
              /\ k # i => nodes'[k] = nodes[k]
         /\ nodes'[i].position = DropPosition
         /\ UNCHANGED <<edges, steps, selectedStep, substeps, savedQuestions,
                        storage, pendingRoot, pendingStep>>]_vars

\* the first node of a two-step tree was dragged while a request was in
\* flight: the tree still is the one of the step list but for that position
C15_Witness ==
  /\ last = Quiet
  /\ IsArray(steps)
  /\ Len(steps.v) = 2
  /\ Len(nodes) = 2
  /\ nodes[1] = [NodeOf(steps.v[1], 0) EXCEPT !.position = DropPosition]
  /\ nodes[2] = NodeOf(steps.v[2], 1)
  /\ edges = NewEdges(steps.v)
  /\ InFlight > 0

\* C16: the selection of a history entry issues no request and changes
\* neither the history (its entries and their order) nor the persisted text.
C16_RestoreReadOnly ==
  [][last'.op = "historySelect" =>
       UNCHANGED <<savedQuestions, storage, pendingRoot, pendingStep>>]_vars

\* the last of the 20 entries of a full history was selected: it still is
\* the last, and the persisted text is the one of the history
C16_Witness ==
  /\ last.op = "historySelect"
  /\ Len(Questions) = HistoryCap
  /\ last.idx = HistoryCap - 1
  /\ steps = Questions[HistoryCap].solution
  /\ Questions = StoredQuestions(HistoryCap)
  /\ storage = JSONStringify(Questions)

\* C17: the step that issues a request (root or step decomposition) changes
\* neither the nodes, the edges, the step list nor the substeps; a new step
\* list that no history entry was selected for appears only in a step that
\* resolves a root request, and new substeps only in a step that resolves a
\* step request.
C17_NoOptimisticUpdate ==
  [][/\ (BagCardinality(pendingRoot') + BagCardinality(pendingStep') > InFlight)
          => UNCHANGED <<nodes, edges, steps, substeps>>
     /\ (steps' # steps /\ last'.op # "historySelect")
          => BagCardinality(pendingRoot') < BagCardinality(pendingRoot)
     /\ (substeps' # substeps /\ substeps' # <<>>)
          => BagCardinality(pendingStep') < BagCardinality(pendingStep)]_vars

\* a step request and a root request are in flight, the last of them just
\* issued, over a tree whose selected step holds the substeps of an earlier
\* answer
C17_Witness ==
  /\ last = Quiet
  /\ pendingRoot # EmptyBag
  /\ pendingStep # EmptyBag
  /\ nodes # <<>>
  /\ selectedStep # Null
  /\ substeps = ProcessedSubsteps(SubstepPool)

\* C18 as it is stated: whenever a step is selected and substeps are held,
\* they are the answer to a request made for the selected step: the answer
\* applied last was the one of a request for the step now selected.
C18_SubstepsOfSelected ==
  (last.op = "stepOk" /\ selectedStep # Null /\ substeps # <<>>)
    => last.idx = selectedStep

====
